---- MODULE Spec2Model ----
(***************************************************************************)
(* A model of scripts/readFromWrite.py (ReadFromWrite, "Read node          *)
(* generator v2.3").                                                       *)
(*                                                                         *)
(* Python strings are sequences of one-character strings, so that the      *)
(* string functions the script relies on (re.findall(r'\d+', s)[-1],       *)
(* str.rfind, str.split, str.replace, os.path.abspath, glob.glob, sorted)  *)
(* are computed character by character the way the interpreter computes    *)
(* them.  The script is Python 2 code (Nuke 2016): an ordering comparison  *)
(* of a str with an int is defined there and every int is smaller than     *)
(* every str.                                                              *)
(*                                                                         *)
(* Three specifications share the operators that model the methods:        *)
(*   SpecPath   the path pipeline of frame_info on every short path       *)
(*   SpecRange  get_framerange on every small set of frames on disk        *)
(*   Spec       one whole ReadFromWrite() action on a small Nuke script    *)
(***************************************************************************)
EXTENDS Integers, Sequences, FiniteSets, TLC

VARIABLES
    \* ---- SpecPath: one path through lines 258-271
    p_raw,          \* the filepath found on disk, before abspath
    p_project,      \* what project_dir() returns
    p_pc,           \* "off" | "found" | "described" | "formatted" |
                    \* "reextracted" | "IndexError"
    p_desc,         \* filepath, current_frame, padding, basename, filetype
    p_determined,   \* result of determine_image_type
    p_processed,    \* result of process_filepath
    p_again,        \* the descriptor extracted again from a substituted path
    \* ---- SpecRange: one call of get_framerange
    r_node,         \* Class, first and last knob of the source node
    r_files,        \* the files on disk
    r_filepath,     \* the existing file the knob names
    r_pc,           \* "off" | "call" | "returned" | "IndexError"
    r_range,        \* the (firstframe, lastframe) returned
    \* ---- Spec: one ReadFromWrite() action
    disk,           \* the files on disk
    root,           \* root's project_directory knob: getValue() and evaluate()
    selected,       \* nuke.selectedNodes(), as node names
    pc,             \* "off" | "start" | "gather" | "create" | "done" |
                    \* the exception that ended the action
    valid_nodes,    \* result of get_selected_valid_nodes
    gathered,       \* how many of valid_nodes gather_node_data has processed
    data,           \* gather_node_data's dictionary: node name -> frame_info
    created,        \* the keys of data create_read_nodes has been through
    filepaths,      \* filepath_from_disk's result for each node gathered
    reads,          \* the Read nodes created, in creation order
    asked,          \* the nodes nuke.ask was shown for, with the answer
    \* ---- SpecOptions: the options loop of create_read_nodes (331-335)
    o_node,         \* the name of the source node
    o_r,            \* the Read node r
    o_before,       \* r as it was before the last set_knob_from_data
    o_key,          \* the data_key of the last set_knob_from_data
    o_applied,      \* the options the loop has been through
    o_pc            \* "off" | "options" | "done" | "AttributeError"

pathVars == <<p_raw, p_project, p_pc, p_desc, p_determined, p_processed,
              p_again>>
rangeVars == <<r_node, r_files, r_filepath, r_pc, r_range>>
mainVars == <<disk, root, selected, pc, valid_nodes, gathered, data, created,
              filepaths, reads, asked>>
optVars == <<o_node, o_r, o_before, o_key, o_applied, o_pc>>
vars == <<pathVars, rangeVars, mainVars, optVars>>

(***************************************************************************)
(* Python values                                                           *)
(***************************************************************************)

\* Python's None where a str is expected: a sequence no string equals.
None == <<"None">>

Digits == {"0", "1", "2", "3", "4", "5", "6", "7", "8", "9"}

IsDigit(c) == c \in Digits

DigitVal(c) ==
    CASE c = "0" -> 0 [] c = "1" -> 1 [] c = "2" -> 2 [] c = "3" -> 3
      [] c = "4" -> 4 [] c = "5" -> 5 [] c = "6" -> 6 [] c = "7" -> 7
      [] c = "8" -> 8 [] c = "9" -> 9

\* int(s) for a string of digits
RECURSIVE StrToInt(_)
StrToInt(s) ==
    IF s = <<>> THEN 0
    ELSE 10 * StrToInt(SubSeq(s, 1, Len(s) - 1)) + DigitVal(s[Len(s)])

SetMax(S) == CHOOSE x \in S : \A y \in S : y <= x
SetMin(S) == CHOOSE x \in S : \A y \in S : x <= y

\* s[:k] for k >= 0
Slice(s, k) == SubSeq(s, 1, IF k > Len(s) THEN Len(s) ELSE k)

\* s[k:] for k >= 0 (0-based, as in Python)
SliceFrom(s, k) == SubSeq(s, k + 1, Len(s))

StartsWith(s, pre) == Len(pre) <= Len(s) /\ SubSeq(s, 1, Len(pre)) = pre

EndsWith(s, suf) ==
    Len(suf) <= Len(s) /\ SubSeq(s, Len(s) - Len(suf) + 1, Len(s)) = suf

\* the 0-based offsets at which sub occurs in s
Occurrences(s, sub) ==
    {i \in 0..(Len(s) - Len(sub)) : SubSeq(s, i + 1, i + Len(sub)) = sub}

\* s.rfind(sub): the highest offset of sub in s, -1 when there is none
RFindFirst(s, sub) ==
    IF Occurrences(s, sub) = {} THEN -1 ELSE SetMin(Occurrences(s, sub))

RFind(s, sub) ==
    IF Occurrences(s, sub) = {} THEN -1 ELSE SetMax(Occurrences(s, sub))

\* c * n
RECURSIVE Repeat(_, _)
Repeat(c, n) == IF n <= 0 THEN <<>> ELSE <<c>> \o Repeat(c, n - 1)

\* s.split(sep)[-1] for a one-character sep: the text after the last sep,
\* the whole of s when sep does not occur
SplitLast(s, sep) ==
    LET at == {i \in 1..Len(s) : s[i] = sep}
    IN  IF at = {} THEN s ELSE SubSeq(s, SetMax(at) + 1, Len(s))

\* s.replace(old, new): every non-overlapping occurrence, left to right;
\* an empty old matches before every character and at the end
RECURSIVE Replace(_, _, _)
Replace(s, old, new) ==
    IF s = <<>> \/ (old # <<>> /\ Len(s) < Len(old))
    THEN (IF old = <<>> THEN new ELSE s)
    ELSE LET hit == old # <<>> /\ StartsWith(s, old)
             out == IF old = <<>> THEN new \o <<s[1]>>
                    ELSE IF hit THEN new
                    ELSE <<s[1]>>
         IN  out \o Replace(SliceFrom(s, IF hit THEN Len(old) ELSE 1), old, new)

\* whether re.findall(r'\d+', s) is non-empty
HasDigits(s) == \E i \in 1..Len(s) : IsDigit(s[i])

\* 1-based position of the last digit of s
LastDigitAt(s) == SetMax({i \in 1..Len(s) : IsDigit(s[i])})

\* 1-based position where the maximal digit run ending at e starts
RunStart(s, e) == SetMin({i \in 1..e : \A j \in i..e : IsDigit(s[j])})

\* re.findall(r'\d+', s)[-1]: the last maximal run of digits
LastDigitRun(s) ==
    LET e == LastDigitAt(s) IN SubSeq(s, RunStart(s, e), e)


(***************************************************************************)
(* The file system: os.path and glob                                       *)
(***************************************************************************)

\* os.getcwd(): the directory Nuke was started in
Cwd == <<"/", "w">>

\* s.split(sep) for a one-character sep
RECURSIVE Split(_, _)
SplitAt(s, sep, at) ==
    <<SubSeq(s, 1, at - 1)>> \o Split(SubSeq(s, at + 1, Len(s)), sep)

Split(s, sep) ==
    IF \A i \in 1..Len(s) : s[i] # sep THEN <<s>>
    ELSE SplitAt(s, sep, SetMin({i \in 1..Len(s) : s[i] = sep}))

\* sep.join(comps)
RECURSIVE Join(_, _)
Join(comps, sep) ==
    IF comps = <<>> THEN <<>>
    ELSE IF Len(comps) = 1 THEN comps[1]
    ELSE comps[1] \o <<sep>> \o Join(Tail(comps), sep)

\* the loop of posixpath.normpath over the components of a path
RECURSIVE NormComps(_, _, _)
NormComps(comps, new_comps, initial_slashes) ==
    IF comps = <<>> THEN new_comps
    ELSE LET comp == Head(comps)
             n == Len(new_comps)
             next ==
                 IF comp = <<>> \/ comp = <<".">> THEN new_comps
                 ELSE IF \/ comp # <<".", ".">>
                         \/ (initial_slashes = 0 /\ n = 0)
                         \/ (n > 0 /\ new_comps[n] = <<".", ".">>)
                 THEN Append(new_comps, comp)
                 ELSE IF n > 0 THEN SubSeq(new_comps, 1, n - 1)
                 ELSE new_comps
         IN  NormComps(Tail(comps), next, initial_slashes)

\* the end of posixpath.normpath: the leading slashes put back, '.' for an
\* empty result
NormJoined(initial_slashes, joined) ==
    IF initial_slashes = 0 /\ joined = <<>> THEN <<".">>
    ELSE Repeat("/", initial_slashes) \o joined

NormWith(path, initial_slashes) ==
    NormJoined(initial_slashes,
               Join(NormComps(Split(path, "/"), <<>>, initial_slashes), "/"))

\* posixpath.normpath
NormPath(path) ==
    IF path = <<>> THEN <<".">>
    ELSE NormWith(path,
                  IF ~StartsWith(path, <<"/">>) THEN 0
                  ELSE IF StartsWith(path, <<"/", "/">>)
                          /\ ~StartsWith(path, <<"/", "/", "/">>) THEN 2
                  ELSE 1)

\* posixpath.join(a, b)
PathJoin(a, b) ==
    IF StartsWith(b, <<"/">>) THEN b
    ELSE IF a = <<>> \/ EndsWith(a, <<"/">>) THEN a \o b
    ELSE a \o <<"/">> \o b

\* os.path.abspath
Abspath(path) ==
    NormPath(IF StartsWith(path, <<"/">>) THEN path ELSE PathJoin(Cwd, path))

\* whether the absolute path a is on a disk holding the files `files`: a
\* file of the disk, a directory above one, or the working directory
OnDisk(a, files) ==
    \/ a \in files
    \/ a = <<"/">>
    \/ a = Cwd
    \/ \E f \in files : StartsWith(f, a \o <<"/">>)

\* os.path.exists
Exists(path, files) == path # <<>> /\ OnDisk(Abspath(path), files)

\* glob.glob(prefix + '*' + suffix): '*' matches any run of characters
\* within one path component
Glob(prefix, suffix, files) ==
    {f \in files :
        /\ Len(f) >= Len(prefix) + Len(suffix)
        /\ StartsWith(f, prefix)
        /\ EndsWith(f, suffix)
        /\ \A i \in (Len(prefix) + 1)..(Len(f) - Len(suffix)) : f[i] # "/"}

(***************************************************************************)
(* Settings                                                                *)
(***************************************************************************)

FILEPATH_KNOBS == <<"file">>

SINGLE_FILE_FORMATS ==
    {<<"a", "v", "i">>, <<"m", "p", "4">>, <<"m", "x", "f">>,
     <<"m", "o", "v">>, <<"m", "p", "g">>, <<"m", "p", "e", "g">>,
     <<"w", "m", "v">>, <<"m", "4", "v">>, <<"m", "2", "v">>}

(***************************************************************************)
(* The path pipeline of frame_info                                         *)
(***************************************************************************)

\* project_dir(): rt is root's project_directory knob
project_dir(rt, files) ==
    IF Exists(rt.value, files) THEN rt.value ELSE rt.eval

\* lines 258-259: the path the descriptor is taken from
resolved_filepath(filepath) == Replace(Abspath(filepath), <<"\\">>, <<"/">>)

current_frame(filepath) == LastDigitRun(filepath)

padding(filepath) == Len(current_frame(filepath))

basename_first(filepath) ==
    Slice(filepath, RFindFirst(filepath, current_frame(filepath)))

basename(filepath) == Slice(filepath, RFind(filepath, current_frame(filepath)))

filetype(filepath) == SplitLast(filepath, ".")

\* lines 260-263
descriptor(filepath) ==
    [filepath |-> filepath,
     current_frame |-> current_frame(filepath),
     padding |-> padding(filepath),
     basename |-> basename(filepath),
     filetype |-> filetype(filepath)]

determine_image_type_nodot(filepath, bn, pad, ft) ==
    IF ft \in SINGLE_FILE_FORMATS THEN filepath
    ELSE bn \o Repeat("#", pad) \o ft

determine_image_type_always_padded(filepath, bn, pad, ft) ==
    bn \o Repeat("#", pad) \o <<".">> \o ft

determine_image_type(filepath, bn, pad, ft) ==
    IF ft \in SINGLE_FILE_FORMATS THEN filepath
    ELSE bn \o Repeat("#", pad) \o <<".">> \o ft

determine_relativity(filepath, pd) ==
    IF pd # None THEN Replace(filepath, pd, <<".">>) ELSE filepath

process_filepath(filepath, ft, bn, pad, pd) ==
    determine_relativity(determine_image_type(filepath, bn, pad, ft), pd)


(***************************************************************************)
(* Nodes, knobs and the frame range                                        *)
(***************************************************************************)

\* A node is [Class, knobs, file_eval, frameRange, xpos, ypos, screenHeight]:
\* knobs maps the names of the knobs the node has to their getValue(),
\* file_eval is knob('file').evaluate(), frameRange the range coming into
\* the node.  node.knob(k) is None exactly when k is no knob of the node.
HasKnob(node, knob_name) == knob_name \in DOMAIN node.knobs

\* get_knob_value: the value, or None
get_knob_value(node, knob_name) ==
    IF HasKnob(node, knob_name)
    THEN [none |-> FALSE, value |-> node.knobs[knob_name]]
    ELSE [none |-> TRUE, value |-> 0]

\* A frame number as the script holds it: an int (from a knob) or a str
\* (from a file name).
PyInt(n) == [t |-> "int", i |-> n, s |-> <<>>]
PyStr(str) == [t |-> "str", i |-> 0, s |-> str]

\* int(v)
ToInt(v) == IF v.t = "int" THEN v.i ELSE StrToInt(v.s)

\* v < 0 in Python 2: numeric for an int, False for a str, which compares
\* greater than every int
LessThanZero(v) == v.t = "int" /\ v.i < 0

\* a < b for two strings of digits: by character code, a proper prefix first
RECURSIVE StrLess(_, _)
StrLess(a, b) ==
    IF b = <<>> THEN FALSE
    ELSE IF a = <<>> THEN TRUE
    ELSE IF a[1] # b[1] THEN DigitVal(a[1]) < DigitVal(b[1])
    ELSE StrLess(Tail(a), Tail(b))

\* sorted(frames)[0] and sorted(frames)[len(frames) - 1]
SortedFirst(frames) == CHOOSE a \in frames : \A b \in frames : ~StrLess(b, a)
SortedLast(frames) == CHOOSE a \in frames : \A b \in frames : ~StrLess(a, b)

NoRange == [firstframe |-> PyInt(0), lastframe |-> PyInt(0)]

framerange_from_read(node) ==
    [firstframe |-> PyInt(get_knob_value(node, "first").value),
     lastframe |-> PyInt(get_knob_value(node, "last").value)]

\* get_framerange, lines 173-175
collapsed(range) ==
    IF LessThanZero(range.lastframe)
    THEN [range EXCEPT !.lastframe = range.firstframe]
    ELSE range

\* get_framerange, lines 167-172, given the frames of the files matched
detected(frames) ==
    [firstframe |-> PyStr(SortedFirst(frames)),
     lastframe |-> PyStr(SortedLast(frames))]

\* get_framerange, lines 164-175, given what the glob matched: frames[0] of
\* no match raises IndexError (line 171), as does [-1] of a match without a
\* digit (line 168)
from_glob(glob_search_results) ==
    IF \/ glob_search_results = {}
       \/ \E f \in glob_search_results : ~HasDigits(f)
    THEN [status |-> "IndexError", range |-> NoRange]
    ELSE [status |-> "ok",
          range |-> collapsed(detected({LastDigitRun(f) :
                                           f \in glob_search_results}))]

\* get_framerange: status "ok" with the range returned, or the exception
\* raised
get_framerange(node, bn, ft, files) ==
    IF node.Class = "Read"
    THEN [status |-> "ok", range |-> collapsed(framerange_from_read(node))]
    ELSE from_glob(Glob(bn, ft, files))

(***************************************************************************)
(* filepath_from_disk and frame_info                                       *)
(***************************************************************************)

NotFound == [status |-> "none", filepath |-> None]
Raised(exception) == [status |-> exception, filepath |-> None]
FoundAt(filepath) == [status |-> "ok", filepath |-> filepath]

\* combined_relative_filepath_exists, from line 121 on: whether the glob for
\* the siblings of filepath matches; re.findall(...)[-1] raises IndexError
\* when filepath holds no digit (line 122)
combined_exists(filepath, files) ==
    IF ~HasDigits(filepath)
    THEN [status |-> "IndexError", exists |-> FALSE, filepath |-> filepath]
    ELSE [status |-> "ok",
          exists |-> Glob(basename(filepath), SplitLast(filepath, "."),
                          files) # {},
          filepath |-> filepath]

\* combined_relative_filepath_exists: the combined filepath and whether it
\* exists
combined_relative_filepath_exists(pd, relative_filepath, files) ==
    combined_exists(Replace(Abspath(PathJoin(pd, relative_filepath)),
                            <<"\\">>, <<"/">>),
                    files)

\* filepath_from_disk, lines 144-148, given what
\* combined_relative_filepath_exists finds
from_combined(c) ==
    IF c.status # "ok" THEN Raised(c.status)
    ELSE IF c.exists THEN FoundAt(c.filepath)
    ELSE NotFound

\* filepath_from_disk: a filepath, None, or the exception raised
filepath_from_disk(knob_value, knob_eval, pd, files) ==
    IF Exists(knob_value, files) THEN FoundAt(knob_value)
    ELSE IF Exists(knob_eval, files) THEN FoundAt(knob_eval)
    ELSE IF pd # None
    THEN from_combined(combined_relative_filepath_exists(pd, knob_eval, files))
    ELSE NotFound

\* node_options
node_options(node) ==
    [colorspace |-> get_knob_value(node, "colorspace"),
     premultiplied |-> get_knob_value(node, "premultiplied"),
     raw |-> get_knob_value(node, "raw")]

NoOptions ==
    [colorspace |-> [none |-> TRUE, value |-> 0],
     premultiplied |-> [none |-> TRUE, value |-> 0],
     raw |-> [none |-> TRUE, value |-> 0]]

\* what frame_info returns: None, or the frame_data dictionary
NoneData ==
    [none |-> TRUE, filepath |-> <<>>, firstframe |-> PyInt(0),
     lastframe |-> PyInt(0), node_options |-> NoOptions]

FrameData(filepath, range, options) ==
    [none |-> FALSE, filepath |-> filepath, firstframe |-> range.firstframe,
     lastframe |-> range.lastframe, node_options |-> options]

Upstream(node) ==
    [firstframe |-> PyInt(node.frameRange[1]),
     lastframe |-> PyInt(node.frameRange[2])]

guessed_framerange_upstream(node) == [status |-> "ok", range |-> Upstream(node)]

\* frame_info, lines 236-245: the framerange guessed for a filepath that
\* was not found; int(None) raises TypeError
guessed_framerange(node) ==
    IF HasKnob(node, "use_limit") /\ get_knob_value(node, "use_limit").value = 1
    THEN IF HasKnob(node, "first") /\ HasKnob(node, "last")
         THEN [status |-> "ok",
               range |-> [firstframe |-> PyInt(node.knobs.first),
                          lastframe |-> PyInt(node.knobs.last)]]
         ELSE [status |-> "TypeError", range |-> NoRange]
    ELSE [status |-> "ok", range |-> Upstream(node)]

\* frame_info, lines 267-279, given the descriptor d and what get_framerange
\* returned
found_data(node, d, fr, pd) ==
    IF fr.status # "ok" THEN [status |-> fr.status, frame_data |-> NoneData]
    ELSE [status |-> "ok",
          frame_data |->
              FrameData(process_filepath(d.filepath, d.filetype, d.basename,
                                         d.padding, pd),
                        fr.range, node_options(node))]

\* frame_info, lines 260-279, given the descriptor d of the filepath
found_described(node, d, pd, files) ==
    found_data(node, d, get_framerange(node, d.basename, d.filetype, files),
               pd)

\* frame_info, lines 260-279; [-1] of no digit run raises IndexError
found_resolved(node, filepath, pd, files) ==
    IF ~HasDigits(filepath)
    THEN [status |-> "IndexError", frame_data |-> NoneData]
    ELSE found_described(node, descriptor(filepath), pd, files)

\* frame_info for a filepath filepath_from_disk found (lines 257-279)
frame_info_found(node, filepath_found, pd, files) ==
    found_resolved(node, resolved_filepath(filepath_found), pd, files)

\* frame_info, lines 247-255, given the framerange guessed
guessed_data(node, knob_eval, pd, g) ==
    IF g.status # "ok" THEN [status |-> g.status, frame_data |-> NoneData]
    ELSE [status |-> "ok",
          frame_data |-> FrameData(determine_relativity(knob_eval, pd),
                                   g.range, node_options(node))]

\* frame_info for a filepath that was not found (lines 231-255); answer is
\* what nuke.ask returned
frame_info_not_found(node, knob_eval, pd, answer) ==
    IF ~answer THEN [status |-> "ok", frame_data |-> NoneData]
    ELSE guessed_data(node, knob_eval, pd, guessed_framerange(node))

\* frame_info, from line 231 on, given what filepath_from_disk returned
frame_info_from(node, knob_eval, pd, files, answer, fd) ==
    IF fd.status = "ok" THEN frame_info_found(node, fd.filepath, pd, files)
    ELSE IF fd.status = "none"
    THEN frame_info_not_found(node, knob_eval, pd, answer)
    ELSE [status |-> fd.status, frame_data |-> NoneData]

frame_info_in(node, knob_value, knob_eval, pd, files, answer) ==
    frame_info_from(node, knob_eval, pd, files, answer,
                    filepath_from_disk(knob_value, knob_eval, pd, files))

\* frame_info
frame_info(node, knob_value, knob_eval, rt, files, answer) ==
    frame_info_in(node, knob_value, knob_eval, project_dir(rt, files), files,
                  answer)

(***************************************************************************)
(* SpecPath: lines 258-271 of frame_info on every short path               *)
(***************************************************************************)

\* longest path stem tried
MaxLen == 5

PathAlphabet == {"/", ".", "a", "1"}

PathExts ==
    {<<>>, <<".", "e", "x", "r">>, <<".", "m", "o", "v">>,
     <<".", "m", "p", "4">>}

ProjectDirs == {None, <<"/", "a">>, <<"/", "w">>}

\* digits a frame number is made of when one is substituted for the '#'s
SubstDigits == {"0", "9"}

Strings(alphabet, n) == UNION {[1..k -> alphabet] : k \in 0..n}

NoDesc ==
    [filepath |-> <<>>, current_frame |-> <<>>, padding |-> 0,
     basename |-> <<>>, filetype |-> <<>>]

BlankNode ==
    [Class |-> "Blur", knobs |-> [size |-> 0], file_eval |-> None,
     frameRange |-> <<1, 1>>, xpos |-> 0, ypos |-> 0, screenHeight |-> 0]

PathOff ==
    /\ p_raw = <<>>
    /\ p_project = None
    /\ p_pc = "off"
    /\ p_desc = NoDesc
    /\ p_determined = <<>>
    /\ p_processed = <<>>
    /\ p_again = NoDesc

RangeOff ==
    /\ r_node = BlankNode
    /\ r_files = {}
    /\ r_filepath = <<>>
    /\ r_pc = "off"
    /\ r_range = NoRange

OptionsOff ==
    /\ o_node = "Blur1"
    /\ o_r = BlankNode
    /\ o_before = BlankNode
    /\ o_key = "none"
    /\ o_applied = {}
    /\ o_pc = "off"

MainOff ==
    /\ disk = {}
    /\ root = [value |-> <<>>, eval |-> None]
    /\ selected = <<>>
    /\ pc = "off"
    /\ valid_nodes = <<>>
    /\ gathered = 0
    /\ data = <<>>
    /\ created = {}
    /\ filepaths = <<>>
    /\ reads = <<>>
    /\ asked = <<>>

PathInit ==
    /\ p_raw \in {stem \o ext : stem \in Strings(PathAlphabet, MaxLen),
                                 ext \in PathExts}
    /\ p_raw # <<>>
    /\ p_project \in ProjectDirs
    /\ p_pc = "found"
    /\ p_desc = NoDesc
    /\ p_determined = <<>>
    /\ p_processed = <<>>
    /\ p_again = NoDesc
    /\ RangeOff
    /\ MainOff
    /\ OptionsOff

\* frame_info, lines 258-263, for a path that holds a digit
Describe ==
    /\ p_pc = "found"
    /\ HasDigits(resolved_filepath(p_raw))
    /\ p_desc' = descriptor(resolved_filepath(p_raw))
    /\ p_pc' = "described"
    /\ UNCHANGED <<p_raw, p_project, p_determined, p_processed, p_again>>
    /\ UNCHANGED <<rangeVars, mainVars, optVars>>

\* frame_info, line 260, for a path without a digit: [-1] of an empty list
DescribeFails ==
    /\ p_pc = "found"
    /\ ~HasDigits(resolved_filepath(p_raw))
    /\ p_pc' = "IndexError"
    /\ UNCHANGED <<p_raw, p_project, p_desc, p_determined, p_processed,
                   p_again>>
    /\ UNCHANGED <<rangeVars, mainVars, optVars>>

\* frame_info, lines 267-271: process_filepath
Format ==
    /\ p_pc = "described"
    /\ p_determined' = determine_image_type(p_desc.filepath, p_desc.basename,
                                            p_desc.padding, p_desc.filetype)
    /\ p_processed' = process_filepath(p_desc.filepath, p_desc.filetype,
                                       p_desc.basename, p_desc.padding,
                                       p_project)
    /\ p_pc' = "formatted"
    /\ UNCHANGED <<p_raw, p_project, p_desc, p_again>>
    /\ UNCHANGED <<rangeVars, mainVars, optVars>>

\* A frame number d of the descriptor's width takes the place of the '#'s of
\* the formatted sequence path, and lines 260-263 run on the result.
Reextract ==
    /\ p_pc = "formatted"
    /\ p_desc.filetype \notin SINGLE_FILE_FORMATS
    /\ \E d \in [1..p_desc.padding -> SubstDigits] :
          LET at == Len(p_desc.basename)
              substituted == Slice(p_determined, at) \o d
                               \o SliceFrom(p_determined, at + p_desc.padding)
          IN  p_again' = descriptor(substituted)
    /\ p_pc' = "reextracted"
    /\ UNCHANGED <<p_raw, p_project, p_desc, p_determined, p_processed>>
    /\ UNCHANGED <<rangeVars, mainVars, optVars>>

PathNext == Describe \/ DescribeFails \/ Format \/ Reextract

SpecPath == PathInit /\ [][PathNext]_vars


(***************************************************************************)
(* SpecRange: get_framerange on every small set of frames on disk          *)
(***************************************************************************)

\* most digits of a frame number on disk
MaxPad == 2

\* most frames on disk
MaxFiles == 2

\* largest first or last knob value of a Read node
MaxFrame == 2

FrameDigits == {"0", "1", "9"}

FrameStrings == UNION {[1..k -> FrameDigits] : k \in 1..MaxPad}

RangeExts == {<<"e", "x", "r">>, <<"m", "p", "4">>}

SeqPrefix == <<"/", "p", "/", "s", ".">>

\* /p/s.<frame>.<ext>
FrameFile(frame, ext) == SeqPrefix \o frame \o <<".">> \o ext

RangeNode(class, first, last) ==
    [BlankNode EXCEPT !.Class = class,
                      !.knobs = [first |-> first, last |-> last]]

RangeInit ==
    /\ \E ext \in RangeExts :
       \E F \in SUBSET FrameStrings :
       \E stray \in SUBSET {SeqPrefix \o ext} :
          /\ F # {}
          /\ Cardinality(F) <= MaxFiles
          /\ r_files = {FrameFile(f, ext) : f \in F} \cup stray
          /\ r_filepath \in {FrameFile(f, ext) : f \in F}
    /\ r_node \in {RangeNode("Write", 1, 1)}
                    \cup {RangeNode("Read", fl[1], fl[2]) :
                             fl \in {x \in ((-1)..MaxFrame) \X ((-1)..MaxFrame) :
                                        x[2] < 0 \/ x[1] <= x[2]}}
    /\ r_pc = "call"
    /\ r_range = NoRange
    /\ PathOff
    /\ MainOff
    /\ OptionsOff

\* frame_info, lines 258-266: the descriptor of the path found, and the call
RangeCall ==
    LET d == descriptor(resolved_filepath(r_filepath))
    IN  get_framerange(r_node, d.basename, d.filetype, r_files)

GetFramerange ==
    /\ r_pc = "call"
    /\ RangeCall.status = "ok"
    /\ r_range' = RangeCall.range
    /\ r_pc' = "returned"
    /\ UNCHANGED <<r_node, r_files, r_filepath, pathVars, mainVars, optVars>>

GetFramerangeRaises ==
    /\ r_pc = "call"
    /\ RangeCall.status # "ok"
    /\ r_pc' = RangeCall.status
    /\ UNCHANGED <<r_node, r_files, r_filepath, r_range, pathVars, mainVars,
                   optVars>>

RangeNext == GetFramerange \/ GetFramerangeRaises

SpecRange == RangeInit /\ [][RangeNext]_vars

(***************************************************************************)
(* Spec: one ReadFromWrite() action on a small Nuke script                 *)
(***************************************************************************)

\* most nodes selected when the action starts
MaxSel == 2

\* vertical distance between a source node and its Read node (line 318)
ReadMargin == 20

\* /p/s.##.exr: a sequence as a Write node's file knob holds it
SeqHashed == <<"/", "p", "/", "s", ".", "#", "#", ".", "e", "x", "r">>
\* /p/s.01.exr: what the knob evaluates to on frame 1
SeqFrame1 == <<"/", "p", "/", "s", ".", "0", "1", ".", "e", "x", "r">>
SeqFrame2 == <<"/", "p", "/", "s", ".", "0", "2", ".", "e", "x", "r">>
\* [e]s.##.exr: an expression that evaluates to a path relative to the
\* project directory, s.01.exr
RelExpr == <<"[", "e", "]", "s", ".", "#", "#", ".", "e", "x", "r">>
RelFrame1 == <<"s", ".", "0", "1", ".", "e", "x", "r">>
\* /w/s.01.exr: the same relative path, under the working directory
CwdFrame1 == <<"/", "w", "/", "s", ".", "0", "1", ".", "e", "x", "r">>
\* ../p/s.##.exr
UpHashed == <<".", ".", "/", "p", "/", "s", ".", "#", "#", ".", "e", "x", "r">>
UpFrame1 == <<".", ".", "/", "p", "/", "s", ".", "0", "1", ".", "e", "x", "r">>
\* /p/a.exr: a still image, no digit in its path
Still == <<"/", "p", "/", "a", ".", "e", "x", "r">>
\* /p/c1.mov
Movie == <<"/", "p", "/", "c", "1", ".", "m", "o", "v">>

ProjectDir == <<"/", "p">>

\* the files that may be on disk
DiskFiles == {SeqFrame1, SeqFrame2, CwdFrame1, Still, Movie}

\* root's project_directory knob: unset, a literal directory, an expression
RootKnobs ==
    {[value |-> <<>>, eval |-> None],
     [value |-> ProjectDir, eval |-> ProjectDir],
     [value |-> <<"[", "e", "]">>, eval |-> ProjectDir]}

WriteNode(file, file_eval, use_limit, x) ==
    [Class |-> "Write",
     knobs |-> [file |-> file, use_limit |-> use_limit, first |-> 10,
                last |-> 20, colorspace |-> 2, premultiplied |-> 1,
                raw |-> 0],
     file_eval |-> file_eval, frameRange |-> <<1, 5>>,
     xpos |-> x, ypos |-> 0, screenHeight |-> 18]

\* The Nuke script the action runs in, by node name
Script ==
    [Write1 |-> WriteNode(SeqHashed, SeqFrame1, 1, 0),
     Write2 |-> WriteNode(RelExpr, RelFrame1, 0, 100),
     Write3 |-> WriteNode(Still, Still, 1, 200),
     Write4 |-> WriteNode(Movie, Movie, 0, 300),
     Write5 |-> WriteNode(UpHashed, UpFrame1, 0, 400),
     Read1 |->
        [Class |-> "Read",
         knobs |-> [file |-> SeqHashed, first |-> 1, last |-> 2,
                    origfirst |-> 1, origlast |-> 2, colorspace |-> 0,
                    premultiplied |-> 0, raw |-> 1],
         file_eval |-> SeqFrame1, frameRange |-> <<1, 2>>,
         xpos |-> 500, ypos |-> 0, screenHeight |-> 18],
     GenerateLUT1 |->
        [Class |-> "GenerateLUT",
         knobs |-> [file |-> SeqHashed],
         file_eval |-> SeqFrame1, frameRange |-> <<1, 5>>,
         xpos |-> 600, ypos |-> 0, screenHeight |-> 18],
     Blur1 |->
        [Class |-> "Blur",
         knobs |-> [size |-> 3],
         file_eval |-> None, frameRange |-> <<1, 5>>,
         xpos |-> 700, ypos |-> 0, screenHeight |-> 18]]

\* nuke.toNode
toNode(name) == Script[name]

\* nuke.selectedNodes(), of which the script keeps the names: at most n
\* items.  Nothing in the script keeps two of them from having one name.
Selections(n) == UNION {[1..k -> DOMAIN Script] : k \in 0..n}

Init ==
    /\ disk \in SUBSET DiskFiles
    /\ root \in RootKnobs
    /\ selected \in Selections(MaxSel)
    /\ pc = "start"
    /\ valid_nodes = <<>>
    /\ gathered = 0
    /\ data = <<>>
    /\ created = {}
    /\ filepaths = <<>>
    /\ reads = <<>>
    /\ asked = <<>>
    /\ PathOff
    /\ RangeOff
    /\ OptionsOff

\* the inner loop of get_selected_valid_nodes: node's name once for every
\* knob of knob_names the node has
RECURSIVE AppendedFor(_, _)
AppendedFor(node, knob_names) ==
    IF knob_names = <<>> THEN <<>>
    ELSE (IF HasKnob(toNode(node), Head(knob_names)) THEN <<node>> ELSE <<>>)
            \o AppendedFor(node, Tail(knob_names))

\* get_selected_valid_nodes
RECURSIVE get_selected_valid_nodes(_)
get_selected_valid_nodes(selected_nodes) ==
    IF selected_nodes = <<>> THEN <<>>
    ELSE AppendedFor(Head(selected_nodes), FILEPATH_KNOBS)
            \o get_selected_valid_nodes(Tail(selected_nodes))

\* __init__, line 70.  With nothing to gather, gather_node_data and
\* create_read_nodes loop over nothing and the action is over.
Start ==
    /\ pc = "start"
    /\ valid_nodes' = get_selected_valid_nodes(selected)
    /\ pc' = IF get_selected_valid_nodes(selected) = <<>> THEN "done"
             ELSE "gather"
    /\ UNCHANGED <<disk, root, selected, gathered, data, created, filepaths,
                   reads, asked>>
    /\ UNCHANGED <<pathVars, rangeVars, optVars>>

\* the node gather_node_data is at, and what it reads from it (lines 94-95)
GatherNode == valid_nodes[gathered + 1]
GatherValue == get_knob_value(toNode(GatherNode), "file").value
GatherEval == toNode(GatherNode).file_eval
GatherFilepath ==
    filepath_from_disk(GatherValue, GatherEval, project_dir(root, disk), disk)
GatherInfo(answer) ==
    frame_info(toNode(GatherNode), GatherValue, GatherEval, root, disk, answer)

\* data[node][knob_name] = frame_info, and on to the next node or, after the
\* last one, to create_read_nodes
Gathered(node, fd, frame_data) ==
    /\ data' = (node :> frame_data) @@ data
    /\ filepaths' = (node :> fd) @@ filepaths
    /\ gathered' = gathered + 1
    /\ pc' = IF gathered + 1 = Len(valid_nodes) THEN "create" ELSE "gather"

FoundTurn(node, fd, fi) ==
    /\ fd.status = "ok"
    /\ fi.status = "ok"
    /\ Gathered(node, fd, fi.frame_data)

\* one turn of gather_node_data's loop: the filepath is found on disk
GatherFound ==
    /\ pc = "gather"
    /\ FoundTurn(GatherNode, GatherFilepath, GatherInfo(TRUE))
    /\ UNCHANGED <<disk, root, selected, valid_nodes, created, reads, asked>>
    /\ UNCHANGED <<pathVars, rangeVars, optVars>>

AskTurn(node, fd, fi, answer) ==
    /\ fd.status = "none"
    /\ asked' = (node :> answer) @@ asked
    /\ IF fi.status = "ok"
       THEN Gathered(node, fd, fi.frame_data)
       ELSE /\ pc' = fi.status
            /\ UNCHANGED <<data, filepaths, gathered>>

\* one turn of gather_node_data's loop: the filepath is not found and the
\* user answers nuke.ask
GatherAsk ==
    /\ pc = "gather"
    /\ \E answer \in BOOLEAN :
          AskTurn(GatherNode, GatherFilepath, GatherInfo(answer), answer)
    /\ UNCHANGED <<disk, root, selected, valid_nodes, created, reads>>
    /\ UNCHANGED <<pathVars, rangeVars, optVars>>

RaisingTurn(node, fd, fi) ==
    /\ fd.status # "none"
    /\ fi.status # "ok"
    /\ pc' = fi.status
    /\ filepaths' = (node :> fd) @@ filepaths

\* one turn of gather_node_data's loop: frame_info raises, nothing catches
\* the exception and ReadFromWrite() ends with it
GatherRaises ==
    /\ pc = "gather"
    /\ RaisingTurn(GatherNode, GatherFilepath, GatherInfo(TRUE))
    /\ UNCHANGED <<disk, root, selected, valid_nodes, gathered, data, created,
                   reads, asked>>
    /\ UNCHANGED <<pathVars, rangeVars, optVars>>

\* nuke.createNode('Read'): a Read node with its default knob values
NewRead ==
    [Class |-> "Read",
     knobs |-> [file |-> <<>>, first |-> 1, last |-> 1, origfirst |-> 1,
                origlast |-> 1, colorspace |-> 0, premultiplied |-> 0,
                raw |-> 0],
     file_eval |-> <<>>, frameRange |-> <<1, 1>>,
     xpos |-> 0, ypos |-> 0, screenHeight |-> 18]

\* set_knob_from_data with is_option: the Read node r afterwards, or the
\* AttributeError of setValue on a knob r does not have.  int(value) leaves
\* the value of a numeric knob as it is.
set_knob_from_data(node, frame_data, r, data_key) ==
    IF ~HasKnob(toNode(node), data_key) THEN [status |-> "ok", r |-> r]
    ELSE IF ~HasKnob(r, data_key) THEN [status |-> "AttributeError", r |-> r]
    ELSE [status |-> "ok",
          r |-> [r EXCEPT !.knobs[data_key] =
                              frame_data.node_options[data_key].value]]

\* create_read_nodes, lines 331-335: the next option, unless setting the
\* one before raised
then_option(node, frame_data, before, data_key) ==
    IF before.status # "ok" THEN before
    ELSE set_knob_from_data(node, frame_data, before.r, data_key)

\* create_read_nodes, lines 320-329
filled_read(r, filepath, firstframe, lastframe) ==
    IF SplitLast(filepath, ".") \in SINGLE_FILE_FORMATS
    THEN [r EXCEPT !.knobs.file = filepath]
    ELSE [r EXCEPT !.knobs.file = filepath,
                   !.knobs.first = firstframe,
                   !.knobs.last = lastframe,
                   !.knobs.origfirst = firstframe,
                   !.knobs.origlast = lastframe]

\* create_read_nodes, lines 311-318
placed_read(source) ==
    [NewRead EXCEPT !.xpos = source.xpos,
                    !.ypos = source.ypos + source.screenHeight + ReadMargin]

\* create_read_nodes, lines 304-335, for one node of data
create_read_node(node, frame_data) ==
    then_option(node, frame_data,
        then_option(node, frame_data,
            then_option(node, frame_data,
                [status |-> "ok",
                 r |-> filled_read(placed_read(toNode(node)),
                                   frame_data.filepath,
                                   ToInt(frame_data.firstframe),
                                   ToInt(frame_data.lastframe))],
                "colorspace"),
            "premultiplied"),
        "raw")

\* create_read_nodes, line 301: no Read node for a frame_info of None
skips_read(frame_data) == frame_data.none

\* one turn of create_read_nodes' loop, for a node whose frame_info is None
SkipNone ==
    /\ pc = "create"
    /\ \E node \in DOMAIN data \ created :
          /\ skips_read(data[node])
          /\ created' = created \cup {node}
          /\ pc' = IF created \cup {node} = DOMAIN data THEN "done"
                   ELSE "create"
    /\ UNCHANGED <<disk, root, selected, valid_nodes, gathered, data,
                   filepaths, reads, asked>>
    /\ UNCHANGED <<pathVars, rangeVars, optVars>>

CreateTurn(node, made) ==
    /\ created' = created \cup {node}
    /\ reads' = Append(reads, made.r)
    /\ pc' = IF made.status # "ok" THEN made.status
             ELSE IF created \cup {node} = DOMAIN data THEN "done"
             ELSE "create"

\* one turn of create_read_nodes' loop, for a node with frame data
CreateRead ==
    /\ pc = "create"
    /\ \E node \in DOMAIN data \ created :
          /\ ~skips_read(data[node])
          /\ CreateTurn(node, create_read_node(node, data[node]))
    /\ UNCHANGED <<disk, root, selected, valid_nodes, gathered, data,
                   filepaths, asked>>
    /\ UNCHANGED <<pathVars, rangeVars, optVars>>

Next ==
    \/ Start
    \/ GatherFound
    \/ GatherAsk
    \/ GatherRaises
    \/ SkipNone
    \/ CreateRead

Spec == Init /\ [][Next]_vars

(***************************************************************************)
(* SpecOptions: the options loop of create_read_nodes (lines 331-335) for  *)
(* every source node of the script and every set of option knobs the Read  *)
(* node may expose                                                         *)
(***************************************************************************)

\* the keys of node_options
OptionNames == DOMAIN NoOptions

\* the nodes create_read_nodes may be at: those with a file-path knob
OptionSources == {name \in DOMAIN Script : HasKnob(toNode(name), "file")}

\* r = nuke.createNode('Read') for a host whose Read node does not expose
\* the knobs of missing
ReadWithout(missing) ==
    [NewRead EXCEPT !.knobs = [k \in DOMAIN NewRead.knobs \ missing |->
                                  NewRead.knobs[k]]]

\* data[node][knob] as frame_info builds it: node_options of the node
OptionData(node) ==
    FrameData(toNode(node).file_eval, Upstream(toNode(node)),
              node_options(toNode(node)))

OptionsInit ==
    /\ o_node \in OptionSources
    /\ o_r \in {ReadWithout(missing) : missing \in SUBSET OptionNames}
    /\ o_before = o_r
    /\ o_key = "none"
    /\ o_applied = {}
    /\ o_pc = "options"
    /\ PathOff
    /\ RangeOff
    /\ MainOff

\* one turn of the loop at line 332, given what set_knob_from_data did
OptionTurn(data_key, made) ==
    /\ o_r' = made.r
    /\ o_before' = o_r
    /\ o_key' = data_key
    /\ o_applied' = o_applied \cup {data_key}
    /\ o_pc' = IF made.status # "ok" THEN made.status
               ELSE IF o_applied \cup {data_key} = OptionNames THEN "done"
               ELSE "options"

\* one turn of the loop: set_knob_from_data returns.  A dictionary is
\* iterated in no particular order.
SetOption ==
    /\ o_pc = "options"
    /\ \E data_key \in OptionNames \ o_applied :
          /\ HasKnob(toNode(o_node), data_key) => HasKnob(o_r, data_key)
          /\ OptionTurn(data_key,
                        set_knob_from_data(o_node, OptionData(o_node), o_r,
                                           data_key))
    /\ UNCHANGED <<o_node, pathVars, rangeVars, mainVars>>

\* one turn of the loop: r.knob(data_key) is None and .setValue raises
SetOptionRaises ==
    /\ o_pc = "options"
    /\ \E data_key \in OptionNames \ o_applied :
          /\ HasKnob(toNode(o_node), data_key)
          /\ ~HasKnob(o_r, data_key)
          /\ OptionTurn(data_key,
                        set_knob_from_data(o_node, OptionData(o_node), o_r,
                                           data_key))
    /\ UNCHANGED <<o_node, pathVars, rangeVars, mainVars>>

OptionsNext ==
    \/ SetOption
    \/ SetOptionRaises

SpecOptions == OptionsInit /\ [][OptionsNext]_vars

(***************************************************************************)
(* Claims about the path pipeline, checked under SpecPath                  *)
(***************************************************************************)

\* the number of '#' characters of s
HashCount(s) == Cardinality({i \in 1..Len(s) : s[i] = "#"})

\* 1-based positions of the first and the last character of the frame
\* number of a path: its last maximal run of digits
FrameEnd(path) == LastDigitAt(path)
FrameStart(path) == RunStart(path, LastDigitAt(path))

\* the path with nothing but its frame digits replaced by '#'
FrameDigitsHashed(path) ==
    SubSeq(path, 1, FrameStart(path) - 1)
        \o Repeat("#", FrameEnd(path) - FrameStart(path) + 1)
        \o SubSeq(path, FrameEnd(path) + 1, Len(path))

Formatted == p_pc \in {"formatted", "reextracted"}

IsSequencePath == p_desc.filetype \notin SINGLE_FILE_FORMATS

ProjectOccursIn(path) ==
    p_project # None /\ Occurrences(path, p_project) # {}

\* C3 as stated: for a sequence path whose frame number has width p, the
\* formatted path is the resolved path with its frame digits replaced by
\* exactly p '#' that stand immediately before '.<extension>', and nothing
\* else of the path lost or altered.
C3_FormattedKeepsAllButFrame ==
    (Formatted /\ IsSequencePath) =>
        /\ p_processed = FrameDigitsHashed(p_desc.filepath)
        /\ EndsWith(p_processed,
                    Repeat("#", p_desc.padding) \o <<".">> \o p_desc.filetype)

\* C3 as amended: for a sequence path, determine_image_type returns the text
\* before the last digit run, then as many '#' as that run has digits, then
\* '.' and the text after the last '.'; this is the resolved path with only
\* its frame digits replaced whenever the frame number stands immediately
\* before '.<extension>'; and process_filepath returns it as it is whenever
\* the project directory is unset or does not occur in it.
C3_FormattedSequencePath ==
    (Formatted /\ IsSequencePath) =>
        LET path == p_desc.filepath
            p == FrameEnd(path) - FrameStart(path) + 1
            ext == <<".">> \o SplitLast(path, ".")
        IN  /\ p_desc.padding = p
            /\ p_determined =
                  SubSeq(path, 1, FrameStart(path) - 1) \o Repeat("#", p) \o ext
            /\ SubSeq(path, FrameEnd(path) + 1, Len(path)) = ext
                  => p_determined = FrameDigitsHashed(path)
            /\ ~ProjectOccursIn(p_determined) => p_processed = p_determined

C3_Witness ==
    /\ Formatted
    /\ IsSequencePath
    /\ p_desc.padding = 2
    /\ p_project # None
    /\ p_processed = FrameDigitsHashed(p_desc.filepath)
    /\ Occurrences(p_desc.basename, p_desc.current_frame) # {}

\* C4 as stated: for a single-file type the formatted path is the resolved
\* path unchanged, whatever the project directory, and holds no '#' the
\* resolved path did not hold.
C4_SingleFileUnchanged ==
    (Formatted /\ ~IsSequencePath) =>
        /\ p_processed = p_desc.filepath
        /\ HashCount(p_processed) <= HashCount(p_desc.filepath)

\* C4 as amended: for a single-file type determine_image_type returns the
\* resolved path unchanged, process_filepath returns it unchanged whenever
\* the project directory is unset or does not occur in the path, and in no
\* case does the formatted path hold a '#' the resolved path did not hold.
C4_SingleFileUnchangedUnlessRelative ==
    (Formatted /\ ~IsSequencePath) =>
        /\ p_determined = p_desc.filepath
        /\ ~ProjectOccursIn(p_desc.filepath) => p_processed = p_desc.filepath
        /\ HashCount(p_processed) <= HashCount(p_desc.filepath)

C4_Witness ==
    /\ Formatted
    /\ ~IsSequencePath
    /\ p_project # None
    /\ p_desc.padding >= 1
    /\ p_processed = p_desc.filepath

\* C5 as stated: for every sequence path, substituting a number of padding
\* digits for the '#'s of basename + '#'*padding + '.' + fileType and
\* extracting the descriptor again gives back the basename, the padding and
\* the fileType, also when the extension or a directory name holds digits.
C5_RoundTrip ==
    p_pc = "reextracted" =>
        /\ p_again.basename = p_desc.basename
        /\ p_again.padding = p_desc.padding
        /\ p_again.filetype = p_desc.filetype

\* C5 as amended: the round trip gives back the basename, the padding and
\* the fileType for every sequence path whose fileType (the text after the
\* last '.') holds no digit; digits in directory names or earlier in the
\* file name do not matter.
C5_RoundTripDigitFreeType ==
    (p_pc = "reextracted" /\ ~HasDigits(p_desc.filetype)) =>
        /\ p_again.basename = p_desc.basename
        /\ p_again.padding = p_desc.padding
        /\ p_again.filetype = p_desc.filetype

C5_Witness ==
    /\ p_pc = "reextracted"
    /\ ~HasDigits(p_desc.filetype)
    /\ HasDigits(p_desc.basename)
    /\ p_desc.padding = 2
    /\ p_again.current_frame # p_desc.current_frame
    /\ p_again.basename = p_desc.basename

\* C6: determine_relativity replaces the project directory with '.' only
\* when it is set and is a prefix of the path, and replaces only that leading
\* prefix; otherwise the path is returned unchanged.
C6_RelativityReplacesLeadingPrefixOnly ==
    Formatted =>
        p_processed =
            IF p_project # None /\ StartsWith(p_determined, p_project)
            THEN <<".">> \o SliceFrom(p_determined, Len(p_project))
            ELSE p_determined


(***************************************************************************)
(* Claims about get_framerange, checked under SpecRange                    *)
(***************************************************************************)

\* the files get_framerange's glob matches, and their frame numbers
RangeMatches ==
    LET d == descriptor(resolved_filepath(r_filepath))
    IN  Glob(d.basename, d.filetype, r_files)

MatchedFrameNumbers == {StrToInt(LastDigitRun(f)) : f \in RangeMatches}

\* C1: the range get_framerange returns has last >= first as integers, for a
\* Read node as for frames found on disk, of whatever digit widths.
C1_LastNotBeforeFirst ==
    r_pc = "returned" =>
        ToInt(r_range.lastframe) >= ToInt(r_range.firstframe)

\* C2: for a node that is no Read node and a glob that matches files,
\* get_framerange returns the numeric minimum and the numeric maximum of the
\* last digit runs of the matched files.
C2_NumericMinMaxOfMatches ==
    (r_pc = "returned" /\ r_node.Class # "Read") =>
        /\ ToInt(r_range.firstframe) = SetMin(MatchedFrameNumbers)
        /\ ToInt(r_range.lastframe) = SetMax(MatchedFrameNumbers)

(***************************************************************************)
(* Claims about one ReadFromWrite() action, checked under Spec             *)
(***************************************************************************)

\* the action is over: it completed or an exception ended it
Over == pc \notin {"start", "gather", "create"}

\* the selected items that expose a file-path knob and whose gathered
\* result is not None
CountedItems ==
    {i \in 1..Len(selected) :
        /\ HasKnob(toNode(selected[i]), "file")
        /\ selected[i] \in DOMAIN data
        /\ ~data[selected[i]].none}

\* the Read nodes placed below a source node
ReadsBelow(node) ==
    {i \in 1..Len(reads) :
        /\ reads[i].xpos = toNode(node).xpos
        /\ reads[i].ypos = toNode(node).ypos + toNode(node).screenHeight
                              + ReadMargin}

\* C7: after a completed action the number of Read nodes created is the
\* number of selected items that expose a file-path knob and whose gathered
\* result is not None, for any selection, two items of one name included.
C7_OneReadPerCountedItem ==
    pc = "done" => Len(reads) = Cardinality(CountedItems)

\* a selected item that is processed without a failure and without a
\* prompt when it is the only one selected
Eligible(node) ==
    /\ HasKnob(toNode(node), "file")
    /\ filepath_from_disk(toNode(node).knobs.file, toNode(node).file_eval,
                          project_dir(root, disk), disk).status = "ok"
    /\ frame_info(toNode(node), toNode(node).knobs.file,
                  toNode(node).file_eval, root, disk, TRUE).status = "ok"

\* C8: when the action is over, whether or not the processing of some item
\* failed, every eligible selected item has got its Read node.
C8_FailureLeavesOtherItems ==
    Over => \A i \in 1..Len(selected) :
                Eligible(selected[i]) => ReadsBelow(selected[i]) # {}

\* the frame range the prompt's "yes" is to give: the explicit first and
\* last of a node whose use_limit is present and 1, else the upstream range
ExpectedGuess(node) ==
    IF "use_limit" \in DOMAIN node.knobs /\ node.knobs.use_limit = 1
    THEN <<node.knobs.first, node.knobs.last>>
    ELSE node.frameRange

\* what the turn of gather_node_data for a path that is not found leaves
\* for the node n
PromptOutcome(n) ==
    /\ n \in DOMAIN asked'
    /\ n \in DOMAIN data'
    /\ IF asked'[n]
       THEN /\ ~data'[n].none
            /\ data'[n].firstframe = PyInt(ExpectedGuess(toNode(n))[1])
            /\ data'[n].lastframe = PyInt(ExpectedGuess(toNode(n))[2])
       ELSE data'[n].none
    /\ gathered' = gathered + 1
    /\ pc' = IF gathered + 1 = Len(valid_nodes) THEN "create" ELSE "gather"

\* C9: for a path that is not found, a "yes" makes frame_info return the
\* explicit first/last of a node whose use_limit is present and 1 and the
\* upstream frameRange otherwise, a "no" makes it return None, and either
\* way gather_node_data goes on with the remaining items.
C9_NotFoundPrompt ==
    [][(pc = "gather" /\ GatherFilepath.status = "none")
          => PromptOutcome(GatherNode)]_vars

\* a declined item first, then an accepted one with use_limit 1, which gets
\* its explicit range (10, 20) and its Read node
C9_Witness ==
    /\ pc = "done"
    /\ Len(valid_nodes) = 2
    /\ valid_nodes[1] # valid_nodes[2]
    /\ valid_nodes[1] \in DOMAIN asked /\ ~asked[valid_nodes[1]]
    /\ valid_nodes[2] \in DOMAIN asked /\ asked[valid_nodes[2]]
    /\ toNode(valid_nodes[2]).knobs.use_limit = 1
    /\ data[valid_nodes[2]].firstframe = PyInt(10)
    /\ data[valid_nodes[2]].lastframe = PyInt(20)
    /\ data[valid_nodes[2]].firstframe # PyInt(toNode(valid_nodes[2]).frameRange[1])
    /\ Len(reads) = 1

\* the sibling-file wildcard match of candidate (c): some file on disk
\* starts with what precedes the frame number of the combined path and ends
\* with its file type
SiblingMatch(combined, files) ==
    /\ HasDigits(combined)
    /\ Glob(basename(combined), SplitLast(combined, "."), files) # {}

\* the evaluated value joined to the project directory
Combined(pd, knob_eval) ==
    Replace(Abspath(PathJoin(pd, knob_eval)), <<"\\">>, <<"/">>)

\* the candidate the fixed order gives: (a), else (b), else (c), else None
FirstCandidate(knob_value, knob_eval, pd, files) ==
    IF Exists(knob_value, files) THEN FoundAt(knob_value)
    ELSE IF Exists(knob_eval, files) THEN FoundAt(knob_eval)
    ELSE IF pd # None /\ SiblingMatch(Combined(pd, knob_eval), files)
    THEN FoundAt(Combined(pd, knob_eval))
    ELSE NotFound

\* C10: filepath_from_disk returns the first of its three candidates that
\* succeeds, and None when the project directory is unset or none does.
C10_FirstCandidateWins ==
    \A n \in DOMAIN filepaths :
        filepaths[n] = FirstCandidate(toNode(n).knobs.file,
                                      toNode(n).file_eval,
                                      project_dir(root, disk), disk)

(***************************************************************************)
(* Claims about the options of a new Read node, checked under SpecOptions  *)
(***************************************************************************)

\* C11: an option is set on the new Read node only if the source node
\* exposes the knob and the Read node exposes a knob of that name; when the
\* knob is absent on either side the option is skipped, no error is raised
\* and no knob of the Read node changes.
C11_OptionSetOnlyIfBothExpose ==
    o_key # "none" =>
        /\ o_pc # "AttributeError"
        /\ o_r = IF HasKnob(toNode(o_node), o_key) /\ HasKnob(o_before, o_key)
                 THEN [o_before EXCEPT
                          !.knobs[o_key] = toNode(o_node).knobs[o_key]]
                 ELSE o_before

====
